---- MODULE Spec2Model ----
(***************************************************************************)
(* Model of app.py: a Flask service that loads a list of section records   *)
(* at import time, indexes them by name and serves them by exact key or    *)
(* through a free-text resolver backed by an optional completion provider. *)
(*                                                                         *)
(* Python strings are sequences of code points, Python values that can be  *)
(* None or of several types are tagged records [t |-> <type>, v |-> ...],  *)
(* Python dicts are functions from field names to values.                  *)
(***************************************************************************)
EXTENDS Integers, Sequences, FiniteSets, TLC

VARIABLES
    SECTIONS_RAW,      \* app.py:68, the list returned by load_sections
    SECTIONS_BY_NAME,  \* app.py:69, dict key -> entry
    SECTION_KEYS,      \* app.py:70, sorted list of the keys
    client,            \* app.py:23-29, TRUE iff an OpenAI client object exists
    DEFAULT_SECTION,   \* app.py:13, environment configuration
    request,           \* the request served last
    response,          \* the (status, JSON body) answered last
    chosen,            \* the resolver's result in the request served last
    llm_reply,         \* what the provider did when it was invoked in that request
    nk_raw,            \* inputs of normalize_key (pair of strings)
    nk_once,           \* normalize_key applied once to each input
    nk_twice           \* normalize_key applied to the results again

store == <<SECTIONS_RAW, SECTIONS_BY_NAME, SECTION_KEYS>>
config == <<client, DEFAULT_SECTION>>
exchange == <<request, response, chosen, llm_reply>>
nk == <<nk_raw, nk_once, nk_twice>>
vars == <<SECTIONS_RAW, SECTIONS_BY_NAME, SECTION_KEYS, client, DEFAULT_SECTION,
          request, response, chosen, llm_reply, nk_raw, nk_once, nk_twice>>

----------------------------------------------------------------------------
(* Bounds *)

MaxRecords == 2   \* records in the data source
MaxStrLen == 3    \* length of the generated inputs of normalize_key

----------------------------------------------------------------------------
(* String literals (code points) *)

s_empty == <<>>
s_space == <<32>>                                                                \* " "
s_blank == <<32, 32>>                                                            \* "  "
s_overview_core == <<111, 118, 101, 114, 118, 105, 101, 119, 95, 99, 111, 114, 101>>        \* "overview_core"
s_Overview_Core == <<79, 118, 101, 114, 118, 105, 101, 119, 32, 67, 111, 114, 101>>         \* "Overview Core"
s_overview_dash_core == <<111, 118, 101, 114, 118, 105, 101, 119, 45, 99, 111, 114, 101>>   \* "overview-core"
s_overview_space_core == <<111, 118, 101, 114, 118, 105, 101, 119, 32, 99, 111, 114, 101>>  \* "overview core"
s_roi_annual == <<114, 111, 105, 95, 97, 110, 110, 117, 97, 108>>                \* "roi_annual"
s_ROI_Annual_padded == <<32, 82, 79, 73, 95, 65, 110, 110, 117, 97, 108, 32>>    \* " ROI_Annual "
s_bogus == <<98, 111, 103, 117, 115>>                                            \* "bogus"
s_roi == <<114, 111, 105>>                                                       \* "roi"
s_reply_padded == <<32, 79, 118, 101, 114, 118, 105, 101, 119, 45, 67, 111, 114, 101, 10>>  \* " Overview-Core\n"
s_None == <<78, 111, 110, 101>>                                                  \* "None"
s_Q1 == <<81, 49>>                                                               \* "Q1"
s_Q2 == <<81, 50>>                                                               \* "Q2"
s_Q3 == <<81, 51>>                                                               \* "Q3"
s_FY == <<70, 89>>                                                               \* "FY"
txt_Section == <<83, 101, 99, 116, 105, 111, 110, 32, 39>>                       \* "Section '"
txt_not_found == <<39, 32, 110, 111, 116, 32, 102, 111, 117, 110, 100, 46>>      \* "' not found."
txt_could_not_infer ==   \* "Could not infer a section from your query."
    <<67, 111, 117, 108, 100, 32, 110, 111, 116, 32, 105, 110, 102, 101, 114, 32, 97, 32,
      115, 101, 99, 116, 105, 111, 110, 32, 102, 114, 111, 109, 32, 121, 111, 117, 114, 32,
      113, 117, 101, 114, 121, 46>>
txt_hint ==              \* "Try specifying ?section=<one of the keys>."
    <<84, 114, 121, 32, 115, 112, 101, 99, 105, 102, 121, 105, 110, 103, 32, 63, 115, 101,
      99, 116, 105, 111, 110, 61, 60, 111, 110, 101, 32, 111, 102, 32, 116, 104, 101, 32,
      107, 101, 121, 115, 62, 46>>
txt_provide_either ==    \* "Provide either ?section=<key> or ?q=<free-text>"
    <<80, 114, 111, 118, 105, 100, 101, 32, 101, 105, 116, 104, 101, 114, 32, 63, 115, 101,
      99, 116, 105, 111, 110, 61, 60, 107, 101, 121, 62, 32, 111, 114, 32, 63, 113, 61, 60,
      102, 114, 101, 101, 45, 116, 101, 120, 116, 62>>
txt_missing_q ==         \* "Missing 'q' in JSON body."
    <<77, 105, 115, 115, 105, 110, 103, 32, 39, 113, 39, 32, 105, 110, 32, 74, 83, 79, 78,
      32, 98, 111, 100, 121, 46>>

----------------------------------------------------------------------------
(* Python values *)

None == [t |-> "None"]
PyStr(s) == [t |-> "str", v |-> s]
PyInt(n) == [t |-> "int", v |-> n]
PyBool(b) == [t |-> "bool", v |-> b]
PyList(l) == [t |-> "list", v |-> l]
PyDict(f) == [t |-> "dict", v |-> f]
EmptyDict == [k \in {} |-> None]

\* Python truth value of a value, as used by `if x`, `not x`, `x or y`.
Truthy(x) ==
    CASE x.t = "None" -> FALSE
      [] x.t = "bool" -> x.v
      [] x.t = "int"  -> x.v # 0
      [] x.t = "str"  -> x.v # <<>>
      [] x.t = "list" -> x.v # <<>>
      [] x.t = "dict" -> DOMAIN x.v # {}

\* dict.get(k, default) on a dict given as a function
get(d, k, default) == IF k \in DOMAIN d THEN d[k] ELSE default

\* str(x) for the values the model feeds it
str(x) ==
    CASE x.t = "str"  -> x.v
      [] x.t = "None" -> s_None

\* str.isspace on one ASCII code point
isspace(c) == c \in {9, 10, 11, 12, 13, 28, 29, 30, 31, 32}

RECURSIVE lstrip(_)
lstrip(s) == IF s # <<>> /\ isspace(Head(s)) THEN lstrip(Tail(s)) ELSE s

RECURSIVE rstrip(_)
rstrip(s) == IF s # <<>> /\ isspace(s[Len(s)]) THEN rstrip(SubSeq(s, 1, Len(s) - 1)) ELSE s

\* str.strip()
strip(s) == rstrip(lstrip(s))

\* str.lower() on ASCII
lower(s) == [i \in 1..Len(s) |-> IF s[i] \in 65..90 THEN s[i] + 32 ELSE s[i]]

\* str.replace(old, new) for one-character old and new
replace(s, old, new) == [i \in 1..Len(s) |-> IF s[i] = old THEN new ELSE s[i]]

\* x in list
InList(x, l) == \E i \in 1..Len(l) : l[i] = x

\* Python's order on strings: lexicographic by code point
RECURSIVE StrLess(_, _)
StrLess(a, b) ==
    IF a = <<>> THEN b # <<>>
    ELSE IF b = <<>> THEN FALSE
    ELSE IF Head(a) # Head(b) THEN Head(a) < Head(b)
    ELSE StrLess(Tail(a), Tail(b))

\* sorted(S) for a set of strings
RECURSIVE sorted(_)
sorted(S) ==
    IF S = {} THEN <<>>
    ELSE LET m == CHOOSE x \in S : \A y \in S \ {x} : StrLess(x, y)
         IN  <<m>> \o sorted(S \ {m})

----------------------------------------------------------------------------
(* Data loading, app.py:60-70 *)

RECURSIVE index_loop(_, _, _)
index_loop(sections, i, out) ==
    IF i > Len(sections) THEN out
    ELSE LET entry == sections[i]
             name == strip(str(get(entry, "section", PyStr(s_empty))))
             key == lower(name)
         IN  index_loop(sections, i + 1,
                        IF name # <<>>
                        THEN [k \in DOMAIN out \cup {key} |-> IF k = key THEN entry ELSE out[k]]
                        ELSE out)

index_by_section(sections) == index_loop(sections, 1, EmptyDict)

----------------------------------------------------------------------------
(* Helpers, app.py:73-125 *)

\* Variant of normalize_key without the call of lower().
normalize_key_keeps_case(raw) == replace(replace(strip(raw), 45, 95), 32, 95)

normalize_key(raw) == replace(replace(lower(strip(raw)), 45, 95), 32, 95)

\* Variant of format_payload whose error text quotes the normalized key
\* instead of the caller's input.
format_payload_quotes_key(section_name) ==
    LET section_key == replace(replace(lower(strip(section_name)), 45, 95), 32, 95)
    IN  IF section_key \notin DOMAIN SECTIONS_BY_NAME
        THEN [ok |-> FALSE,
              error |-> txt_Section \o section_key \o txt_not_found,
              available_sections |-> SECTION_KEYS]
        ELSE LET section == SECTIONS_BY_NAME[section_key]
             IN  [ok |-> TRUE,
                  section |-> get(section, "section", None),
                  period |-> get(section, "period", None),
                  metrics |-> get(section, "metrics", PyDict(EmptyDict))]

format_payload(section_name) ==
    LET section_key == normalize_key(section_name)
    IN  IF section_key \notin DOMAIN SECTIONS_BY_NAME
        THEN [ok |-> FALSE,
              error |-> txt_Section \o section_name \o txt_not_found,
              available_sections |-> SECTION_KEYS]
        ELSE LET section == SECTIONS_BY_NAME[section_key]
             IN  [ok |-> TRUE,
                  section |-> get(section, "section", None),
                  period |-> get(section, "period", None),
                  metrics |-> get(section, "metrics", PyDict(EmptyDict))]

\* Variant of choose_section_with_llm that returns the normalized answer
\* without testing it against the candidate keys.
choose_section_with_llm_unchecked(query, candidate_keys, reply) ==
    IF ~client THEN None
    ELSE IF reply.kind # "message" THEN None
    ELSE LET content == reply.content
             text == lower(strip(IF Truthy(content) THEN content.v ELSE s_empty))
         IN  PyStr(replace(replace(lower(strip(text)), 45, 95), 32, 95))

\* Variant of choose_section_with_llm that falls back to the overview key when
\* the provider is absent or fails.
choose_section_with_llm_fallback(query, candidate_keys, reply) ==
    IF ~client THEN PyStr(s_overview_core)
    ELSE IF reply.kind # "message" THEN PyStr(s_overview_core)
    ELSE LET content == reply.content
             text == lower(strip(IF Truthy(content) THEN content.v ELSE s_empty))
             text_norm == replace(replace(lower(strip(text)), 45, 95), 32, 95)
         IN  IF InList(text_norm, candidate_keys) THEN PyStr(text_norm) ELSE None

\* Variant of choose_section_with_llm that matches the answer against the
\* candidate keys without normalizing it.
choose_section_with_llm_raw_match(query, candidate_keys, reply) ==
    IF ~client THEN None
    ELSE IF reply.kind # "message" THEN None
    ELSE LET content == reply.content
             text == lower(strip(IF Truthy(content) THEN content.v ELSE s_empty))
         IN  IF InList(text, candidate_keys) THEN PyStr(text) ELSE None

\* reply is what client.chat.completions.create does when it is called:
\* it raises, returns a response without choices, or returns a message.
choose_section_with_llm(query, candidate_keys, reply) ==
    IF ~client THEN None
    ELSE IF reply.kind # "message" THEN None
    ELSE LET content == reply.content
             text == lower(strip(IF Truthy(content) THEN content.v ELSE s_empty))
             text_norm == normalize_key(text)
         IN  IF InList(text_norm, candidate_keys) THEN PyStr(text_norm) ELSE None

----------------------------------------------------------------------------
(* Configuration, app.py:13-29 *)

\* The default of DEFAULT_GREETING: "Hi Alisha, here's an updated overview on
\* all insights. Let me know if there's anything else on your mind."
DEFAULT_GREETING ==
    <<72, 105, 32, 65, 108, 105, 115, 104, 97, 44, 32, 104, 101, 114, 101, 8217, 115, 32,
      97, 110, 32, 117, 112, 100, 97, 116, 101, 100, 32, 111, 118, 101, 114, 118, 105, 101,
      119, 32, 111, 110, 32, 97, 108, 108, 32, 105, 110, 115, 105, 103, 104, 116, 115, 46,
      32, 76, 101, 116, 32, 109, 101, 32, 107, 110, 111, 119, 32, 105, 102, 32, 116, 104,
      101, 114, 101, 8217, 115, 32, 97, 110, 121, 116, 104, 105, 110, 103, 32, 101, 108, 115,
      101, 32, 111, 110, 32, 121, 111, 117, 114, 32, 109, 105, 110, 100, 46>>

\* Values of the DEFAULT_SECTION environment variable: its default and
\* another section key.
DefaultSections == {s_overview_core, s_roi_annual}

----------------------------------------------------------------------------
(* Inputs *)

\* Section objects a data file may hold.
DataRecords ==
    { [section |-> PyStr(s_Overview_Core), period |-> PyStr(s_Q1),
       metrics |-> PyDict([x |-> PyInt(1)])],
      [section |-> PyStr(s_overview_core), period |-> PyStr(s_Q2),
       metrics |-> PyDict([x |-> PyInt(2)])],
      [section |-> PyStr(s_ROI_Annual_padded), period |-> PyStr(s_FY),
       metrics |-> PyDict([y |-> PyInt(3)])],
      [section |-> PyStr(s_roi_annual), period |-> PyStr(s_Q1)],
      [section |-> PyStr(s_blank), period |-> PyStr(s_Q3),
       metrics |-> PyDict(EmptyDict)] }

\* The lists load_sections can return.
DataSources == UNION { [1..n -> DataRecords] : n \in 0..MaxRecords }

\* Values of the section parameter and of the path segment.
ExactInputs ==
    { s_empty, s_space, s_overview_core, s_Overview_Core, s_overview_dash_core,
      s_overview_space_core, s_bogus }

\* Values of the q parameter.
FreeTexts == { s_empty, s_roi }

\* request.args of GET /metrics: each of section and q is absent or a string.
QueryArgs ==
    { EmptyDict }
    \cup { [section |-> s] : s \in ExactInputs }
    \cup { [q |-> t] : t \in FreeTexts }
    \cup { [section |-> s, q |-> s_roi] : s \in {s_empty} }

\* Bodies of POST /ask: none, not JSON, or a JSON value.
AskBodies ==
    { [kind |-> "absent"], [kind |-> "malformed"] }
    \cup { [kind |-> "json", value |-> v] :
             v \in { None, PyBool(FALSE), PyInt(5), PyStr(s_roi), PyList(<<>>),
                     PyList(<<PyInt(1)>>), PyDict(EmptyDict),
                     PyDict([label |-> PyStr(s_roi)]) } }
    \cup { [kind |-> "json", value |-> PyDict([q |-> v])] :
             v \in { PyStr(s_empty), PyStr(s_space), PyStr(s_roi) } }

\* What the provider does when called: raise (network, auth), answer without
\* choices (resp.choices[0] raises IndexError), or answer with a message whose
\* content is None or a string.
ProviderReplies ==
    { [kind |-> "raises"], [kind |-> "no_choices"] }
    \cup { [kind |-> "message", content |-> c] :
             c \in { None, PyStr(s_overview_core), PyStr(s_reply_padded),
                     PyStr(s_overview_space_core), PyStr(s_roi_annual), PyStr(s_bogus) } }

NotCalled == [kind |-> "not_called"]
NoRequest == [route |-> "none"]
NoResponse == [status |-> 0, body |-> EmptyDict]

----------------------------------------------------------------------------
(* State after import of app.py *)

Init ==
    /\ SECTIONS_RAW \in DataSources
    /\ SECTIONS_BY_NAME = index_by_section(SECTIONS_RAW)
    /\ SECTION_KEYS = sorted(DOMAIN SECTIONS_BY_NAME)
    /\ client \in BOOLEAN
    /\ DEFAULT_SECTION \in DefaultSections
    /\ request = NoRequest
    /\ response = NoResponse
    /\ chosen = None
    /\ llm_reply = NotCalled
    /\ nk_raw = <<>>
    /\ nk_once = <<>>
    /\ nk_twice = <<>>

----------------------------------------------------------------------------
(* Routes, app.py:128-207 *)

\* request.args.get(k)
args_get(args, k) == IF k \in DOMAIN args THEN PyStr(args[k]) ELSE None

\* request.get_json(silent=True)
get_json(body) == IF body.kind = "json" THEN body.value ELSE None

\* A view returns (jsonify(body), status); the globals are left alone.
Respond(req, status, body, ch, reply) ==
    /\ request' = req
    /\ response' = [status |-> status, body |-> body]
    /\ chosen' = ch
    /\ llm_reply' = reply
    /\ UNCHANGED <<store, config, nk>>

\* An exception no handler catches reaches Flask, which answers 500.
InternalServerError(req, exc) == Respond(req, 500, [unhandled |-> exc], None, NotCalled)

\* The provider's behaviours at a call of choose_section_with_llm: without a
\* client the provider is not called.
ProviderCall == IF client THEN ProviderReplies ELSE {NotCalled}

\* Variant of root_default that adds the greeting to the indexed entry itself
\* and returns that entry.
root_default_greets_in_place ==
    LET req == [route |-> "/"]
        key == normalize_key(DEFAULT_SECTION)
    IN  IF key \in DOMAIN SECTIONS_BY_NAME
        THEN /\ SECTIONS_BY_NAME' =
                  [SECTIONS_BY_NAME EXCEPT ![key] = [message |-> DEFAULT_GREETING] @@ @]
             /\ request' = req
             /\ response' = [status |-> 200, body |-> SECTIONS_BY_NAME'[key]]
             /\ chosen' = None
             /\ llm_reply' = NotCalled
             /\ UNCHANGED <<SECTIONS_RAW, SECTION_KEYS, config, nk>>
        ELSE Respond(req, 404, format_payload(DEFAULT_SECTION), None, NotCalled)

root_default ==
    LET req == [route |-> "/"]
        payload == format_payload(DEFAULT_SECTION)
    IN  IF payload.ok
        THEN Respond(req, 200,
                     [message |-> DEFAULT_GREETING, section |-> payload.section,
                      period |-> payload.period, metrics |-> payload.metrics],
                     None, NotCalled)
        ELSE Respond(req, 404, payload, None, NotCalled)

get_metrics_query ==
    \E args \in QueryArgs :
        LET req == [route |-> "/metrics", args |-> args]
            section == args_get(args, "section")
            q == args_get(args, "q")
        IN  IF Truthy(section)
            THEN LET payload == format_payload(section.v)
                 IN  Respond(req, IF payload.ok THEN 200 ELSE 404, payload, None, NotCalled)
            ELSE IF Truthy(q)
            THEN \E reply \in ProviderCall :
                   LET ch == choose_section_with_llm(q.v, SECTION_KEYS, reply)
                   IN  IF ~Truthy(ch)
                       THEN Respond(req, 400,
                                    [ok |-> FALSE, error |-> txt_could_not_infer,
                                     available_sections |-> SECTION_KEYS, hint |-> txt_hint],
                                    ch, reply)
                       ELSE Respond(req, 200, format_payload(ch.v), ch, reply)
            ELSE Respond(req, 400,
                         [ok |-> FALSE, error |-> txt_provide_either,
                          available_sections |-> SECTION_KEYS],
                         None, NotCalled)

\* Flask's string converter matches a path segment of at least one character.
get_metrics_path ==
    \E section_name \in ExactInputs \ {s_empty} :
        LET req == [route |-> "/metrics/<section_name>", section_name |-> section_name]
            payload == format_payload(section_name)
        IN  Respond(req, IF payload.ok THEN 200 ELSE 404, payload, None, NotCalled)

ask_llm_router ==
    \E body \in AskBodies :
        LET req == [route |-> "/ask", body |-> body]
            parsed == get_json(body)
            data == IF Truthy(parsed) THEN parsed ELSE PyDict(EmptyDict)
        IN  IF data.t # "dict"
            THEN \* data.get raises AttributeError: str, int, bool and list have no get
                 InternalServerError(req, "AttributeError")
            ELSE LET q == strip(str(get(data.v, "q", PyStr(s_empty))))
                 IN  IF q = <<>>
                     THEN Respond(req, 400, [ok |-> FALSE, error |-> txt_missing_q],
                                  None, NotCalled)
                     ELSE \E reply \in ProviderCall :
                            LET ch == choose_section_with_llm(q, SECTION_KEYS, reply)
                            IN  IF ~Truthy(ch)
                                THEN Respond(req, 400,
                                             [ok |-> FALSE, error |-> txt_could_not_infer,
                                              available_sections |-> SECTION_KEYS],
                                             ch, reply)
                                ELSE LET payload == format_payload(ch.v)
                                         msg == IF ch.v = s_overview_core
                                                THEN PyStr(DEFAULT_GREETING) ELSE None
                                     IN  Respond(req, 200,
                                                 IF Truthy(msg)
                                                 THEN payload @@ [message |-> msg.v]
                                                 ELSE payload,
                                                 ch, reply)

healthz == Respond([route |-> "/healthz"], 200, [ok |-> TRUE], None, NotCalled)

Next ==
    \/ root_default
    \/ get_metrics_query
    \/ get_metrics_path
    \/ ask_llm_router
    \/ healthz

Spec == Init /\ [][Next]_vars

----------------------------------------------------------------------------
(* normalize_key as a function of its input alone *)

\* Code points of the generated inputs: tab, space, hyphen, "A", underscore, "a".
NormAlphabet == {9, 32, 45, 65, 95, 97}

GeneratedStrings == UNION { [1..n -> NormAlphabet] : n \in 0..MaxStrLen }

\* The three spellings of the overview key.
OverviewSpellings == {s_Overview_Core, s_overview_dash_core, s_overview_core}

\* The code points that differ from c only in letter case or in the choice of
\* separator among space, hyphen and underscore.
Alike(c) ==
    IF c \in 65..90 THEN {c, c + 32}
    ELSE IF c \in 97..122 THEN {c, c - 32}
    ELSE IF c \in {32, 45, 95} THEN {32, 45, 95}
    ELSE {c}

\* The strings that differ from x only in letter case and separator choice.
RECURSIVE Respellings(_)
Respellings(x) ==
    IF x = <<>> THEN {<<>>}
    ELSE { <<c>> \o r : c \in Alike(Head(x)), r \in Respellings(Tail(x)) }

\* The inputs: a generated string with each of its respellings, and the
\* overview spellings with each other.
InitNormalize ==
    /\ \E x \in GeneratedStrings \cup OverviewSpellings :
           \E y \in (IF x \in OverviewSpellings THEN OverviewSpellings ELSE Respellings(x)) :
               nk_raw = <<x, y>>
    /\ nk_once = <<>>
    /\ nk_twice = <<>>
    /\ SECTIONS_RAW = <<>>
    /\ SECTIONS_BY_NAME = index_by_section(SECTIONS_RAW)
    /\ SECTION_KEYS = sorted(DOMAIN SECTIONS_BY_NAME)
    /\ client = FALSE
    /\ DEFAULT_SECTION = s_overview_core
    /\ request = NoRequest
    /\ response = NoResponse
    /\ chosen = None
    /\ llm_reply = NotCalled

NormalizeOnce ==
    /\ nk_once = <<>>
    /\ nk_once' = <<normalize_key(nk_raw[1]), normalize_key(nk_raw[2])>>
    /\ UNCHANGED <<nk_raw, nk_twice, store, config, exchange>>

NormalizeAgain ==
    /\ nk_once # <<>>
    /\ nk_twice = <<>>
    /\ nk_twice' = <<normalize_key(nk_once[1]), normalize_key(nk_once[2])>>
    /\ UNCHANGED <<nk_raw, nk_once, store, config, exchange>>

NextNormalize ==
    \/ NormalizeOnce
    \/ NormalizeAgain

SpecNormalize == InitNormalize /\ [][NextNormalize]_vars

----------------------------------------------------------------------------
(* Vocabulary of the properties *)

\* The request served last is an exact-key lookup: GET /metrics with a section
\* parameter, or GET /metrics/<section_name>.
IsExactLookup ==
    \/ request.route = "/metrics/<section_name>"
    \/ request.route = "/metrics" /\ "section" \in DOMAIN request.args

\* Its key, as the caller wrote it.
ExactInput ==
    IF request.route = "/metrics" THEN request.args.section ELSE request.section_name

\* The request served last is a free-text request: GET /metrics?q=<text>
\* without a section, or POST /ask with a JSON object whose q is non-blank.
IsFreeText ==
    \/ /\ request.route = "/metrics"
       /\ "section" \notin DOMAIN request.args
       /\ "q" \in DOMAIN request.args
       /\ request.args.q # <<>>
    \/ /\ request.route = "/ask"
       /\ request.body.kind = "json"
       /\ request.body.value.t = "dict"
       /\ "q" \in DOMAIN request.body.value.v
       /\ request.body.value.v.q.t = "str"
       /\ \E i \in 1..Len(request.body.value.v.q.v) : ~isspace(request.body.value.v.q.v[i])

\* The display name of a loaded record, "" when it has none.
RecordName(r) == IF "section" \in DOMAIN r THEN r.section.v ELSE <<>>

NonBlank(s) == \E i \in 1..Len(s) : ~isspace(s[i])

\* l is the complete list of index keys in strictly ascending order.
IsSortedKeyList(l) ==
    /\ { l[i] : i \in 1..Len(l) } = DOMAIN SECTIONS_BY_NAME
    /\ \A i \in 1..Len(l) : \A j \in 1..Len(l) : i < j => StrLess(l[i], l[j])

\* body is the not-found payload for the caller's input x.
IsNotFoundPayload(body, x) ==
    /\ DOMAIN body = {"ok", "error", "available_sections"}
    /\ body.ok = FALSE
    /\ body.error = txt_Section \o x \o txt_not_found
    /\ IsSortedKeyList(body.available_sections)

\* body carries ok:true and the display name, period and metrics of entry.
IsPayloadOf(body, entry) ==
    /\ {"ok", "section", "period", "metrics"} \subseteq DOMAIN body
    /\ body.ok = TRUE
    /\ body.section = entry.section
    /\ body.period = entry.period
    /\ body.metrics = IF "metrics" \in DOMAIN entry THEN entry.metrics ELSE PyDict(EmptyDict)

\* The key the provider's answer stands for: its text trimmed, lowercased and
\* normalized; "" when it carries no text.
AnswerKey(reply) ==
    IF reply.kind = "message" /\ reply.content.t = "str"
    THEN normalize_key(lower(strip(reply.content.v)))
    ELSE <<>>

----------------------------------------------------------------------------
(* C1 *)

\* C1: for every loaded record r with a non-blank section name, an exact-key
\* lookup with k = normalize(r.section) answers 200 with ok:true and the display
\* name, period and metrics of the last loaded record whose normalized name is k.
C1_LoadedRecordFoundByNormalizedName ==
    IsExactLookup =>
        \A i \in 1..Len(SECTIONS_RAW) :
            (NonBlank(RecordName(SECTIONS_RAW[i]))
             /\ ExactInput = normalize_key(RecordName(SECTIONS_RAW[i])))
            => LET last == CHOOSE j \in 1..Len(SECTIONS_RAW) :
                             /\ normalize_key(RecordName(SECTIONS_RAW[j])) = ExactInput
                             /\ \A m \in (j + 1)..Len(SECTIONS_RAW) :
                                    normalize_key(RecordName(SECTIONS_RAW[m])) # ExactInput
               IN  /\ response.status = 200
                   /\ IsPayloadOf(response.body, SECTIONS_RAW[last])

----------------------------------------------------------------------------
(* C2 *)

\* C2: every key listed in the index (hence in available_sections) can itself be
\* used as a lookup key: the exact-key lookup of a listed key answers ok:true.
C2_ListedKeyIsRetrievable ==
    (IsExactLookup /\ InList(ExactInput, SECTION_KEYS))
    => (response.status = 200 /\ response.body.ok = TRUE)

----------------------------------------------------------------------------
(* C3 *)

\* C3 as stated: for every input x whose normalized form is not an index key,
\* the exact-key routes answer 404 with the not-found payload for x.
C3_AbsentKeyIs404 ==
    (IsExactLookup /\ normalize_key(ExactInput) \notin DOMAIN SECTIONS_BY_NAME)
    => (response.status = 404 /\ IsNotFoundPayload(response.body, ExactInput))

\* C3 amended: format(x) returns the not-found payload (ok:false, the error text
\* with the caller's own input, the complete sorted key list) for every x whose
\* normalized form is not an index key, and the exact-key routes answer 404 with
\* it for every such x that is not the empty string.
C3_AbsentNonEmptyKeyIs404 ==
    /\ \A x \in ExactInputs :
           normalize_key(x) \notin DOMAIN SECTIONS_BY_NAME
           => IsNotFoundPayload(format_payload(x), x)
    /\ (IsExactLookup /\ ExactInput # <<>>
        /\ normalize_key(ExactInput) \notin DOMAIN SECTIONS_BY_NAME)
       => (response.status = 404 /\ IsNotFoundPayload(response.body, ExactInput))

\* An absent key written un-normalized was looked up while the index held at
\* least two keys loaded out of order.
C3_Witness ==
    /\ IsExactLookup
    /\ ExactInput = s_Overview_Core
    /\ response.status = 404
    /\ Len(SECTION_KEYS) = 2
    /\ Len(SECTIONS_RAW) = 2
    /\ StrLess(lower(strip(RecordName(SECTIONS_RAW[2]))), lower(strip(RecordName(SECTIONS_RAW[1]))))

----------------------------------------------------------------------------
(* C4 *)

\* C4: whatever the provider does, the resolver returns none or an element of
\* the candidate keys; without a client it returns none and the provider is not
\* invoked.
C4_ResolverStaysInCandidates ==
    IsFreeText =>
        /\ chosen = None \/ (chosen.t = "str" /\ InList(chosen.v, SECTION_KEYS))
        /\ ~client => (chosen = None /\ llm_reply = NotCalled)

\* The provider answered a text outside a non-empty candidate list and the
\* resolver returned none.
C4_Witness ==
    /\ IsFreeText
    /\ client
    /\ llm_reply = [kind |-> "message", content |-> PyStr(s_bogus)]
    /\ SECTION_KEYS # <<>>
    /\ chosen = None

----------------------------------------------------------------------------
(* C5 *)

\* C5: on the free-text routes, when the provider is absent, raises, answers
\* without a usable message or answers a key outside the candidate keys, the
\* handler answers 400 with ok:false (never 5xx).
C5_ResolutionFailureIs400 ==
    (IsFreeText
     /\ (\/ llm_reply = NotCalled
         \/ llm_reply.kind \in {"raises", "no_choices"}
         \/ ~InList(AnswerKey(llm_reply), SECTION_KEYS)))
    => (response.status = 400 /\ response.body.ok = FALSE)

\* The provider raised during POST /ask and the caller got 400.
C5_Witness ==
    /\ request.route = "/ask"
    /\ IsFreeText
    /\ llm_reply.kind = "raises"
    /\ response.status = 400

----------------------------------------------------------------------------
(* C6 *)

\* C6: POST /ask with no body, unparseable JSON, a JSON value that is not an
\* object, an object without q, or a q that is empty or whitespace-only answers
\* 400 with {ok:false, error:"Missing 'q' in JSON body."}.
C6_MissingQIs400 ==
    (/\ request.route = "/ask"
     /\ \/ request.body.kind \in {"absent", "malformed"}
        \/ request.body.value.t # "dict"
        \/ "q" \notin DOMAIN request.body.value.v
        \/ /\ request.body.value.v.q.t = "str"
           /\ ~NonBlank(request.body.value.v.q.v))
    => (/\ response.status = 400
        /\ response.body = [ok |-> FALSE, error |-> txt_missing_q])

----------------------------------------------------------------------------
(* C7 *)

\* C7: a 200 response of POST /ask carries the greeting as message if and only
\* if the chosen key is the configured default section key, the one GET / serves.
C7_GreetingIffDefaultSection ==
    (request.route = "/ask" /\ response.status = 200)
    => (("message" \in DOMAIN response.body /\ response.body.message = DEFAULT_GREETING)
        <=> (chosen.t = "str" /\ chosen.v = normalize_key(DEFAULT_SECTION)))

----------------------------------------------------------------------------
(* C8 *)

\* s has no whitespace at either end, so that every space in it separates.
IsTrimmed(s) == s = <<>> \/ (~isspace(s[1]) /\ ~isspace(s[Len(s)]))

\* x and y differ only in letter case and in the separator (space, hyphen or
\* underscore) used at a position.
SameSpelling(x, y) == Len(x) = Len(y) /\ \A i \in 1..Len(x) : y[i] \in Alike(x[i])

\* C8: normalize yields a string for every input, normalize(normalize(x)) =
\* normalize(x), and two strings that differ only in letter case and in using
\* space, hyphen or underscore as separator normalize to the same key.
C8_NormalizeIdempotentInsensitive ==
    /\ nk_once # <<>> =>
          \A n \in 1..2 :
              /\ DOMAIN nk_once[n] = 1..Len(nk_once[n])
              /\ \A i \in 1..Len(nk_once[n]) : nk_once[n][i] \in Nat
    /\ nk_twice # <<>> => nk_twice = nk_once
    /\ (nk_once # <<>> /\ SameSpelling(nk_raw[1], nk_raw[2])
        /\ IsTrimmed(nk_raw[1]) /\ IsTrimmed(nk_raw[2]))
       => nk_once[1] = nk_once[2]

\* "Overview Core" and "overview-core" were normalized, twice, to overview_core.
C8_Witness ==
    /\ nk_raw = <<s_Overview_Core, s_overview_dash_core>>
    /\ nk_once = <<s_overview_core, s_overview_core>>
    /\ nk_twice # <<>>

----------------------------------------------------------------------------
(* C9 *)

\* C9: no request changes the loaded records, the index or the key list, and an
\* exact-key lookup repeated after any request is answered the same.
C9_IndexNeverMutated ==
    [][/\ SECTIONS_RAW' = SECTIONS_RAW
       /\ SECTIONS_BY_NAME' = SECTIONS_BY_NAME
       /\ SECTION_KEYS' = SECTION_KEYS
       /\ (IsExactLookup /\ IsExactLookup' /\ ExactInput # <<>> /\ ExactInput' = ExactInput)
          => response' = response]_vars

\* A request ended in an unhandled error while a non-empty index was loaded, and
\* the index is still the one built from the records.
C9_Witness ==
    /\ response.status = 500
    /\ SECTION_KEYS # <<>>
    /\ SECTIONS_BY_NAME = index_by_section(SECTIONS_RAW)
    /\ IsSortedKeyList(SECTION_KEYS)

----------------------------------------------------------------------------
(* C10 *)

\* C10: every 200 response of a free-text route carries ok:true with the display
\* name, period and metrics of the record indexed under the chosen key.
C10_ChosenKeyFormats ==
    (IsFreeText /\ response.status = 200)
    => /\ chosen.t = "str"
       /\ chosen.v \in DOMAIN SECTIONS_BY_NAME
       /\ IsPayloadOf(response.body, SECTIONS_BY_NAME[chosen.v])

\* The provider's padded, hyphenated answer was resolved and served with 200.
C10_Witness ==
    /\ IsFreeText
    /\ request.route = "/metrics"
    /\ llm_reply = [kind |-> "message", content |-> PyStr(s_reply_padded)]
    /\ response.status = 200

====
